---- MODULE Spec2Model ----
(***************************************************************************)
(* Model of src/src/app/app.component.ts: the reactive pipeline of the     *)
(* payment-qr component (form state -> debounce -> validation -> HTTP      *)
(* request -> result mapping -> presentation).                             *)
(*                                                                         *)
(* JavaScript strings are sequences of one-character strings; the fixed    *)
(* Czech messages are written without diacritics and kept as one token.    *)
(* null and undefined are the one-token sequences Null and Undefined,      *)
(* which no string operation of the program produces.                      *)
(***************************************************************************)
EXTENDS Naturals, Integers, Sequences, FiniteSets, TLC

Null == <<"<null>">>
Undefined == <<"<undefined>">>

\* src line 29
fields == <<"account", "amount", "message">>
Field == {fields[i] : i \in 1..Len(fields)}

Digits == {"0", "1", "2", "3", "4", "5", "6", "7", "8", "9"}
Whitespace == {" "}

(***************************************************************************)
(* String.prototype.trim (line 86).                                        *)
(***************************************************************************)
RECURSIVE TrimStart(_)
TrimStart(s) ==
  IF s # <<>> /\ Head(s) \in Whitespace THEN TrimStart(Tail(s)) ELSE s

RECURSIVE TrimEnd(_)
TrimEnd(s) ==
  IF s # <<>> /\ s[Len(s)] \in Whitespace
    THEN TrimEnd(SubSeq(s, 1, Len(s) - 1))
    ELSE s

trim(s) == TrimEnd(TrimStart(s))

(***************************************************************************)
(* The account pattern /(?:(\d{1,6})-)?(\d{2,10})\/(\d{4})/g of line 128.  *)
(***************************************************************************)
PrefixMin == 1
PrefixMax == 6
NumberMin == 2
NumberMax == 10
BankLen == 4

\* number of consecutive digits of s from position i on, at most max
RECURSIVE DigitRun(_, _, _)
DigitRun(s, i, max) ==
  IF max = 0 \/ i > Len(s) \/ s[i] \notin Digits
    THEN 0
    ELSE 1 + DigitRun(s, i + 1, max - 1)

CharAt(s, i, c) == i <= Len(s) /\ s[i] = c

NoMatch ==
  [matched |-> FALSE, index |-> 0, text |-> Undefined,
   accountPrefix |-> Undefined, accountNumber |-> Undefined, bankCode |-> Undefined]

\* (\d{2,10})\/(\d{4}) at position j, the greedy quantifier giving back one
\* digit at a time; n is the number of digits it currently holds
RECURSIVE MatchNumber(_, _, _)
MatchNumber(s, j, n) ==
  IF n < NumberMin
    THEN NoMatch
    ELSE IF CharAt(s, j + n, "/") /\ DigitRun(s, j + n + 1, BankLen) = BankLen
      THEN [matched |-> TRUE, index |-> j, text |-> SubSeq(s, j, j + n + BankLen),
            accountPrefix |-> Undefined,
            accountNumber |-> SubSeq(s, j, j + n - 1),
            bankCode |-> SubSeq(s, j + n + 1, j + n + BankLen)]
      ELSE MatchNumber(s, j, n - 1)

MatchTail(s, j) == MatchNumber(s, j, DigitRun(s, j, NumberMax))

\* (?:(\d{1,6})-)? at position i holding p digits, then the rest; when the
\* group cannot be completed with any p it is skipped
RECURSIVE MatchPrefix(_, _, _)
MatchPrefix(s, i, p) ==
  IF p < PrefixMin
    THEN MatchTail(s, i)
    ELSE IF CharAt(s, i + p, "-") /\ MatchTail(s, i + p + 1).matched
      THEN LET t == MatchTail(s, i + p + 1)
           IN [t EXCEPT !.index = i,
                        !.text = SubSeq(s, i, i + p) \o t.text,
                        !.accountPrefix = SubSeq(s, i, i + p - 1)]
      ELSE MatchPrefix(s, i, p - 1)

\* a pattern whose prefix group is not optional
AccountMatchAtPrefixOnly(s, i) ==
  LET m == MatchPrefix(s, i, DigitRun(s, i, PrefixMax))
  IN IF m.accountPrefix = Undefined THEN NoMatch ELSE m

AccountMatchAt(s, i) == MatchPrefix(s, i, DigitRun(s, i, PrefixMax))

\* the first element of matchAll: the match at the leftmost position
RECURSIVE AccountScan(_, _)
AccountScan(s, i) ==
  IF i > Len(s)
    THEN NoMatch
    ELSE IF AccountMatchAt(s, i).matched
      THEN AccountMatchAt(s, i)
      ELSE AccountScan(s, i + 1)

accountMatch(s) == AccountScan(s, 1)

(***************************************************************************)
(* The amount pattern /\d+(?:\.\d\d?)?/g of line 136.                      *)
(***************************************************************************)
FractionMax == 2

AmountMatchAt(s, i) ==
  LET n == DigitRun(s, i, Len(s))
      f == IF CharAt(s, i + n, ".") THEN DigitRun(s, i + n + 1, FractionMax) ELSE 0
  IN IF n = 0
       THEN [matched |-> FALSE, index |-> 0, text |-> Undefined]
       ELSE [matched |-> TRUE, index |-> i,
             text |-> SubSeq(s, i, i + n - 1 + (IF f > 0 THEN f + 1 ELSE 0))]

RECURSIVE AmountScan(_, _)
AmountScan(s, i) ==
  IF i > Len(s)
    THEN [matched |-> FALSE, index |-> 0, text |-> Undefined]
    ELSE IF AmountMatchAt(s, i).matched
      THEN AmountMatchAt(s, i)
      ELSE AmountScan(s, i + 1)

amountMatch(s) == AmountScan(s, 1)


(***************************************************************************)
(* Types of lines 31-38.  A RequestResult is an object: ref is its         *)
(* identity, 0 for loadingSingleton and g for the object literal that the  *)
(* call of getQrCodeForState for the g-th FormState allocates.             *)
(***************************************************************************)
GenericMessage == <<"QR kod se nepodarilo vygenerovat.">>
AccountMessage == <<"Neplatne cislo uctu">>
AmountMessage == <<"Neplatny format cisla">>

NewErrors == [generic |-> Null, fields |-> [f \in Field |-> Null]]

loadingSingleton ==
  [ref |-> 0, state |-> "loading", blob |-> Null, errors |-> NewErrors]

\* JavaScript truthiness of a string, null or undefined
Truthy(v) == v # Null /\ v # Undefined /\ v # <<>>

(***************************************************************************)
(* getQrCodeForState, lines 125-159: validation and the request            *)
(* parameters.  URLSearchParams is the list of its key/value pairs.        *)
(***************************************************************************)
AccountChecked(state, errors) ==
  IF ~accountMatch(state.account).matched
    THEN [generic |-> GenericMessage,
          fields |-> [errors.fields EXCEPT !["account"] = AccountMessage]]
    ELSE errors

\* an amount check that sets the field error and leaves errors.generic alone
AmountCheckedFieldOnly(state, errors) ==
  IF ~amountMatch(state.amount).matched
    THEN [errors EXCEPT !.fields["amount"] = AmountMessage]
    ELSE errors

\* an amount check that starts from a fresh fields object
AmountCheckedFresh(state, errors) ==
  IF ~amountMatch(state.amount).matched
    THEN [generic |-> GenericMessage,
          fields |-> [NewErrors.fields EXCEPT !["amount"] = AmountMessage]]
    ELSE errors

AmountChecked(state, errors) ==
  IF ~amountMatch(state.amount).matched
    THEN [generic |-> GenericMessage,
          fields |-> [errors.fields EXCEPT !["amount"] = AmountMessage]]
    ELSE errors

Validated(state) == AmountChecked(state, AccountChecked(state, NewErrors))

\* a parameter list that never has accountPrefix
PrefixParamNever(m) == <<>>

PrefixParam(m) ==
  IF Truthy(m.accountPrefix) THEN <<(<<"accountPrefix", m.accountPrefix>>)>> ELSE <<>>

URLSearchParams(state) ==
  LET m == accountMatch(state.account)
  IN PrefixParam(m) \o
     << <<"accountNumber", m.accountNumber>>,
        <<"bankCode", m.bankCode>>,
        <<"amount", state.amount>>,
        <<"currency", <<"C", "Z", "K">> >>,
        <<"message", state.message>>,
        <<"branding", <<"false">> >> >>

NoRequest == <<>>

\* what the call returns: of(failed result), or the HTTP observable, which
\* issues the request when it is subscribed
getQrCodeForState(state, ref) ==
  LET errors == Validated(state)
  IN IF errors.generic # Null
       THEN [kind |-> "of", errors |-> errors, params |-> NoRequest,
             result |-> [ref |-> ref, state |-> "failed", blob |-> Null, errors |-> errors]]
       ELSE [kind |-> "http", errors |-> errors, params |-> URLSearchParams(state)]

(***************************************************************************)
(* Outcomes of the HTTP call.  An outcome is a response (ok, body), or an  *)
(* error: one that is no HttpErrorResponse, an HttpErrorResponse whose     *)
(* error is no Blob, or one whose error is a Blob with a text.  The text   *)
(* of an error Blob is given by what JSON.parse makes of it.               *)
(***************************************************************************)
NoText ==
  [valid |-> FALSE, isObject |-> FALSE, hasErrors |-> FALSE, isArray |-> FALSE, errors |-> <<>>]

Outcome(kind, ok, body, text) ==
  [kind |-> kind, ok |-> ok, body |-> body, text |-> text]

NoResponse == Outcome("none", FALSE, Null, NoText)

\* a map whose failure branch leaves errors.generic alone
ResponseMappedNoGeneric(response, errors, ref) ==
  IF response.ok /\ response.body # Null
    THEN [errors |-> errors,
          result |-> [ref |-> ref, state |-> "success", blob |-> response.body, errors |-> errors]]
    ELSE [errors |-> errors,
          result |-> [ref |-> ref, state |-> "failed", blob |-> Null, errors |-> errors]]

\* a map that takes any response with a body for a success
ResponseMappedIgnoringOk(response, errors, ref) ==
  IF response.body # Null
    THEN [errors |-> errors,
          result |-> [ref |-> ref, state |-> "success", blob |-> response.body, errors |-> errors]]
    ELSE LET e == [errors EXCEPT !.generic = GenericMessage]
         IN [errors |-> e,
             result |-> [ref |-> ref, state |-> "failed", blob |-> Null, errors |-> e]]

\* the map of lines 164-179
ResponseMapped(response, errors, ref) ==
  IF response.ok /\ response.body # Null
    THEN [errors |-> errors,
          result |-> [ref |-> ref, state |-> "success", blob |-> response.body, errors |-> errors]]
    ELSE LET e == [errors EXCEPT !.generic = GenericMessage]
         IN [errors |-> e,
             result |-> [ref |-> ref, state |-> "failed", blob |-> Null, errors |-> e]]

\* a loop that puts each description in front of what was appended before
RECURSIVE DescriptionsReversed(_, _)
DescriptionsReversed(generic, list) ==
  IF list = <<>>
    THEN generic
    ELSE LET error == Head(list)
             rest == DescriptionsReversed(generic, Tail(list))
         IN IF error.isObject /\ error.hasDescription /\ Truthy(error.description)
              THEN rest \o <<" ">> \o error.description
              ELSE rest

\* errors.generic += " " + description, for each element with a truthy
\* description, lines 195-198
RECURSIVE DescriptionsAppended(_, _)
DescriptionsAppended(generic, list) ==
  IF list = <<>>
    THEN generic
    ELSE LET error == Head(list)
             g == IF error.isObject /\ error.hasDescription /\ Truthy(error.description)
                    THEN generic \o <<" ">> \o error.description
                    ELSE generic
         IN DescriptionsAppended(g, Tail(list))

\* a catch block that appends the name of what it caught
TextParsedReporting(text, errors) ==
  IF text.valid /\ text.isObject /\ text.hasErrors /\ text.isArray
    THEN [errors EXCEPT !.generic = DescriptionsAppended(errors.generic, text.errors)]
    ELSE IF text.valid /\ ~text.hasErrors
      THEN errors
      ELSE [errors EXCEPT !.generic = errors.generic \o <<" ", "Error">>]

\* the try block of lines 193-200: JSON.parse throws on a text that is no
\* JSON, forEach throws when errors is present and no array; both are caught
TextParsed(text, errors) ==
  IF text.valid /\ text.isObject /\ text.hasErrors /\ text.isArray
    THEN [errors EXCEPT !.generic = DescriptionsAppended(errors.generic, text.errors)]
    ELSE errors

FailedResult(errors, ref) ==
  [ref |-> ref, state |-> "failed", blob |-> Null, errors |-> errors]

(***************************************************************************)
(* The component and the subscriptions that ngOnInit sets up.              *)
(*                                                                         *)
(*   controls       value of each form control                             *)
(*   formState      the FormState last passed on by line 90                *)
(*   gen            number of FormStates passed on so far                  *)
(*   inners         inners[g] is the inner observable that the switchMap   *)
(*                  of line 97 made for the g-th FormState                 *)
(*   requestResult, imageUrl   the component's fields, lines 64-65         *)
(*   previous       the value that requestResult held before               *)
(*   destroyed      the DestroyRef has fired                               *)
(*   errored        an error has gone through the chain to the subscriber  *)
(*                  of line 109, which has no error callback: the          *)
(*                  subscription is closed                                 *)
(*   urlStore       number of object URLs that the component has created   *)
(*                  and that are not revoked                               *)
(*   event          what happened last: "ngOnInit"; a value change whose   *)
(*                  FormState was passed on ("emit"), dropped by line 90   *)
(*                  ("same") or came after destruction ("off"); "timer",   *)
(*                  "response", "error", "text", "discarded", "destroy";   *)
(*                  "unhandled" when the read of an error body failed      *)
(***************************************************************************)
VARIABLES controls, formState, gen, inners, requestResult, previous, imageUrl, destroyed,
          errored, urlStore, event

vars ==
  <<controls, formState, gen, inners, requestResult, previous, imageUrl, destroyed,
    errored, urlStore, event>>

pipeline == <<formState, gen, inners, requestResult, previous, imageUrl, errored, urlStore>>

\* bound on the number of FormStates passed on in one behaviour
MaxEmits == 2

\* lines 84-88
FormStateOf(values) == [f \in Field |-> trim(values[f])]

\* a comparator that tells any two FormState objects apart
FormStateEqualByReference(a, b) == FALSE

\* the comparator of line 91
FormStateEqual(a, b) == \A i \in 1..Len(fields) : a[fields[i]] = b[fields[i]]

\* a comparator that tells any two results apart
ResultEqualNever(a, b) == FALSE

\* the comparator of line 103
ResultEqual(a, b) == a.ref = b.ref

\* URL.createObjectURL, line 112
createObjectURL(blob) == <<"blob:">> \o blob

\* requestResult before the first delivery: undefined (line 64)
NoResult == [ref |-> 0 - 1, state |-> "undefined", blob |-> Null, errors |-> NewErrors]

\* a subscriber that leaves imageUrl alone when the result has no blob
ReceivedKeeping(result) ==
  /\ previous' = requestResult
  /\ requestResult' = result
  /\ imageUrl' = IF result.blob # Null THEN createObjectURL(result.blob) ELSE imageUrl
  /\ urlStore' = IF result.blob # Null THEN urlStore + 1 ELSE urlStore

\* the subscriber of lines 110-113
Received(result) ==
  /\ previous' = requestResult
  /\ requestResult' = result
  /\ imageUrl' = IF result.blob # Null THEN createObjectURL(result.blob) ELSE Undefined
  /\ urlStore' = IF result.blob # Null THEN urlStore + 1 ELSE urlStore

\* a value leaving an inner observable: distinctUntilChanged of line 103,
\* then the subscriber
Emitted(result) ==
  IF ResultEqual(requestResult, result)
    THEN UNCHANGED <<requestResult, previous, imageUrl, urlStore>>
    ELSE Received(result)

\* merge(of(loadingSingleton), timer(500)...) of lines 97-102, subscribed;
\* sent counts the requests it has issued, response is the response received
NewInner(state) ==
  [state |-> state, phase |-> "timer", subscribed |-> TRUE, supersededIn |-> "no",
   request |-> NoRequest, sent |-> 0, response |-> NoResponse, errors |-> NewErrors,
   text |-> NoText, terminal |-> FALSE]

\* a switchMap that leaves the inner observable it holds subscribed
StillSubscribed(inner) == inner

\* switchMap unsubscribes the inner observable it holds: its timer is
\* cleared, its request aborted
Unsubscribed(inner) == [inner EXCEPT !.subscribed = FALSE]

\* a switch that records the phase and leaves the inner observable subscribed
SupersededNotCancelled(inner) ==
  IF inner.supersededIn = "no" THEN [inner EXCEPT !.supersededIn = inner.phase] ELSE inner

\* supersededIn records the phase an inner observable was in when the next
\* FormState arrived
Superseded(inner) ==
  IF inner.supersededIn = "no"
    THEN [Unsubscribed(inner) EXCEPT !.supersededIn = inner.phase]
    ELSE Unsubscribed(inner)

\* a switch whose inner observable does not start with loadingSingleton
SwitchedSilently(state) ==
  /\ formState' = state
  /\ gen' = gen + 1
  /\ inners' = Append([g \in 1..gen |-> Superseded(inners[g])], NewInner(state))
  /\ UNCHANGED <<requestResult, previous, imageUrl, urlStore, errored>>

\* a FormState arriving at the switchMap of line 97
Switched(state) ==
  /\ formState' = state
  /\ gen' = gen + 1
  /\ inners' = Append([g \in 1..gen |-> Superseded(inners[g])], NewInner(state))
  /\ Emitted(loadingSingleton)
  /\ UNCHANGED errored

(***************************************************************************)
(* Init: the state at the end of ngOnInit.  The three setValue calls of    *)
(* lines 118-119 make combineLatest emit once, after the third; that first *)
(* FormState has delivered loadingSingleton and started the timer.         *)
(***************************************************************************)
InitWith(params) ==
  /\ controls = params
  /\ formState = FormStateOf(params)
  /\ gen = 1
  /\ inners = <<NewInner(FormStateOf(params))>>
  /\ requestResult = loadingSingleton
  /\ previous = NoResult
  /\ imageUrl = Undefined
  /\ destroyed = FALSE
  /\ errored = FALSE
  /\ urlStore = 0
  /\ event = "ngOnInit"

\* a control's valueChanges emits v (lines 82-93, then 96-114)
ValueChange(f, v) ==
  /\ controls' = [controls EXCEPT ![f] = v]
  /\ IF destroyed \/ errored
       THEN event' = "off" /\ UNCHANGED pipeline
       ELSE IF FormStateEqual(formState, FormStateOf(controls'))
         THEN event' = "same" /\ UNCHANGED pipeline
         ELSE gen < MaxEmits /\ event' = "emit" /\ Switched(FormStateOf(controls'))
  /\ UNCHANGED destroyed

\* a timer that unsubscribing does not clear
TimerUncleared(inner) == inner.phase = "timer"

\* timer(500), line 99: it expires unless it was unsubscribed meanwhile
TimerPending(inner) == inner.phase = "timer" /\ inner.subscribed

\* timer(500) of inners[g] expires: line 100 calls getQrCodeForState and
\* subscribes to what it returns
TimerFire(g) ==
  /\ TimerPending(inners[g])
  /\ LET call == getQrCodeForState(inners[g].state, g)
     IN IF call.kind = "of"
          THEN /\ inners' = [inners EXCEPT ![g].phase = "done", ![g].errors = call.errors,
                                           ![g].terminal = TRUE]
               /\ Emitted(call.result)
          ELSE /\ inners' = [inners EXCEPT ![g].phase = "http", ![g].errors = call.errors,
                                           ![g].request = call.params,
                                           ![g].sent = inners[g].sent + 1]
               /\ UNCHANGED <<requestResult, previous, imageUrl, urlStore>>
  /\ UNCHANGED <<controls, formState, gen, destroyed, errored>>
  /\ event' = "timer"

\* the request of inners[g] completes with a response (lines 164-179)
HttpResponse(g, response) ==
  /\ inners[g].phase = "http"
  /\ inners[g].subscribed
  /\ response.kind = "response"
  /\ LET mapped == ResponseMapped(response, inners[g].errors, g)
     IN /\ inners' = [inners EXCEPT ![g].phase = "done", ![g].errors = mapped.errors,
                                    ![g].response = response, ![g].terminal = TRUE]
        /\ Emitted(mapped.result)
  /\ UNCHANGED <<controls, formState, gen, destroyed, errored>>
  /\ event' = "response"

\* a catchError that returns caught once, which issues the request again
HttpErrorRetrying(g, error) ==
  /\ inners[g].phase = "http"
  /\ inners[g].subscribed
  /\ error.kind # "response"
  /\ LET errors == [inners[g].errors EXCEPT !.generic = GenericMessage]
     IN IF inners[g].sent < 2
          THEN /\ inners' = [inners EXCEPT ![g].errors = errors, ![g].sent = inners[g].sent + 1]
               /\ UNCHANGED <<requestResult, previous, imageUrl, urlStore>>
          ELSE /\ inners' = [inners EXCEPT ![g].phase = "done", ![g].errors = errors,
                                           ![g].terminal = TRUE]
               /\ Emitted(FailedResult(errors, g))
  /\ UNCHANGED <<controls, formState, gen, destroyed, errored>>
  /\ event' = "error"

\* the request of inners[g] fails (lines 180-191)
HttpError(g, error) ==
  /\ inners[g].phase = "http"
  /\ inners[g].subscribed
  /\ error.kind # "response"
  /\ LET errors == [inners[g].errors EXCEPT !.generic = GenericMessage]
     IN IF error.kind = "HttpErrorResponse" /\ error.body # Null
          THEN /\ inners' = [inners EXCEPT ![g].phase = "text", ![g].errors = errors,
                                           ![g].text = error.text]
               /\ UNCHANGED <<requestResult, previous, imageUrl, urlStore>>
          ELSE /\ inners' = [inners EXCEPT ![g].phase = "done", ![g].errors = errors,
                                           ![g].terminal = TRUE]
               /\ Emitted(FailedResult(errors, g))
  /\ UNCHANGED <<controls, formState, gen, destroyed, errored>>
  /\ event' = "error"

\* the promise of errorResponse.error.text() resolves (lines 191-207)
TextRead(g) ==
  /\ inners[g].phase = "text"
  /\ inners[g].subscribed
  /\ LET errors == TextParsed(inners[g].text, inners[g].errors)
     IN /\ inners' = [inners EXCEPT ![g].phase = "done", ![g].errors = errors,
                                    ![g].terminal = TRUE]
        /\ Emitted(FailedResult(errors, g))
  /\ UNCHANGED <<controls, formState, gen, destroyed, errored>>
  /\ event' = "text"

\* the promise of errorResponse.error.text() rejects (line 191): from()
\* errors inside what catchError returned, nothing downstream catches it, and
\* the subscriber of line 109 has no error callback; the chain is torn down
TextFail(g) ==
  /\ inners[g].phase = "text"
  /\ inners[g].subscribed
  /\ inners' = [h \in 1..gen |->
                  IF h = g THEN [Unsubscribed(inners[h]) EXCEPT !.phase = "done"]
                           ELSE Unsubscribed(inners[h])]
  /\ errored' = TRUE
  /\ event' = "unhandled"
  /\ UNCHANGED <<controls, formState, gen, requestResult, previous, imageUrl, destroyed,
                 urlStore>>

\* a response, or the text of an error body, arrives for an inner observable
\* that was unsubscribed: nothing is listening
Discarded(g) ==
  /\ inners[g].phase \in {"http", "text"}
  /\ ~inners[g].subscribed
  /\ inners' = [inners EXCEPT ![g].phase = "done"]
  /\ UNCHANGED <<controls, formState, gen, requestResult, previous, imageUrl, destroyed,
                 errored, urlStore>>
  /\ event' = "discarded"

\* a destruction that leaves the chain subscribed
DestroyWithoutTeardown ==
  /\ ~destroyed
  /\ destroyed' = TRUE
  /\ event' = "destroy"
  /\ UNCHANGED <<controls, formState, gen, inners, requestResult, previous, imageUrl, errored,
                 urlStore>>

\* the component is destroyed: takeUntilDestroyed (line 108) unsubscribes
\* the whole chain
Destroy ==
  /\ ~destroyed
  /\ destroyed' = TRUE
  /\ inners' = [g \in 1..gen |-> Unsubscribed(inners[g])]
  /\ event' = "destroy"
  /\ UNCHANGED <<controls, formState, gen, requestResult, previous, imageUrl, errored,
                 urlStore>>

(***************************************************************************)
(* Inputs.                                                                 *)
(***************************************************************************)
AccountValues ==
  { <<"x">>,
    <<"1", "2", "/", "0", "1", "0", "0">>,
    <<" ", "1", "2", "/", "0", "1", "0", "0">> }

AmountValues == { <<"5">>, <<"x">> }

MessageValues == { <<>>, <<"m">> }

Values == [account |-> AccountValues, amount |-> AmountValues, message |-> MessageValues]

Params == {p \in [Field -> AccountValues \cup AmountValues \cup MessageValues] :
             \A f \in Field : p[f] \in Values[f]}

Blobs == { <<"png1">>, <<"png2">> }

Responses ==
  {Outcome("response", TRUE, body, NoText) : body \in Blobs \cup {Null}}
  \cup {Outcome("response", FALSE, body, NoText) : body \in {<<"png1">>, Null}}

Descriptors ==
  { [isObject |-> FALSE, hasDescription |-> FALSE, description |-> Undefined],
    [isObject |-> TRUE, hasDescription |-> FALSE, description |-> Undefined],
    [isObject |-> TRUE, hasDescription |-> TRUE, description |-> <<>>],
    [isObject |-> TRUE, hasDescription |-> TRUE, description |-> <<"I", "c">>],
    [isObject |-> TRUE, hasDescription |-> TRUE, description |-> <<"X">>] }

\* bound on the length of the errors list of an error body
MaxErrors == 2

ErrorLists(n) == UNION {[1..k -> Descriptors] : k \in 0..n}

Json(isObject, hasErrors, isArray, errors) ==
  [valid |-> TRUE, isObject |-> isObject, hasErrors |-> hasErrors, isArray |-> isArray,
   errors |-> errors]

\* texts of an error body: no JSON, JSON null, an object without errors, an
\* object whose errors is no array, objects with an errors list
Texts(n) ==
  { NoText, Json(FALSE, FALSE, FALSE, <<>>), Json(TRUE, FALSE, FALSE, <<>>),
    Json(TRUE, TRUE, FALSE, <<>>) }
  \cup {Json(TRUE, TRUE, TRUE, l) : l \in ErrorLists(n)}

SomeTexts ==
  { NoText,
    Json(TRUE, TRUE, TRUE, <<[isObject |-> TRUE, hasDescription |-> TRUE,
                              description |-> <<"I", "c">>]>>) }

Failures(texts) ==
  { Outcome("error", FALSE, Null, NoText), Outcome("HttpErrorResponse", FALSE, Null, NoText) }
  \cup {Outcome("HttpErrorResponse", FALSE, <<"errorBlob">>, t) : t \in texts}

(***************************************************************************)
(* Spec: the component from the end of ngOnInit on, under edits of the     *)
(* form, timer expiries, HTTP completions and destruction.                 *)
(***************************************************************************)
Init == \E params \in Params : InitWith(params)

Next ==
  \/ \E f \in Field : \E v \in Values[f] : ValueChange(f, v)
  \/ \E g \in 1..gen : TimerFire(g)
  \/ \E g \in 1..gen : \E response \in Responses : HttpResponse(g, response)
  \/ \E g \in 1..gen : \E error \in Failures(SomeTexts) : HttpError(g, error)
  \/ \E g \in 1..gen : TextRead(g)
  \/ \E g \in 1..gen : TextFail(g)
  \/ \E g \in 1..gen : Discarded(g)
  \/ Destroy

Spec == Init /\ [][Next]_vars

TypeOK ==
  /\ gen \in 1..MaxEmits
  /\ Len(inners) = gen
  /\ requestResult.state \in {"loading", "success", "failed"}

(***************************************************************************)
(* SpecValidate: the page is opened with account and amount taken from the *)
(* URL (line 117-119) and left alone; its timer expires.  The accounts are *)
(* pre digits^a dash digits^b slash digits^c, the digit at position k      *)
(* of the string being k modulo 10, with a, b and c running past the       *)
(* lengths the pattern admits.                                             *)
(***************************************************************************)
\* how far the digit runs go past PrefixMax, NumberMax and BankLen
ExtraDigits == 1

\* bound on the length of the amounts
MaxAmountLen == 3

DigitChar == <<"0", "1", "2", "3", "4", "5", "6", "7", "8", "9">>

DigitsAfter(s, n) == s \o [k \in 1..n |-> DigitChar[((Len(s) + k) % 10) + 1]]

AccountOf(pre, a, dash, b, slash, c) ==
  DigitsAfter(DigitsAfter(DigitsAfter(pre, a) \o dash, b) \o slash, c)

Junk == { <<>>, <<"x">> }

RichAccounts ==
  { AccountOf(pre, a, dash, b, slash, c) :
      pre \in Junk, a \in 0..(PrefixMax + ExtraDigits), dash \in { <<>>, <<"-">> },
      b \in 0..(NumberMax + ExtraDigits), slash \in { <<>>, <<"/">> },
      c \in 0..(BankLen + ExtraDigits) }

RichAmounts == UNION {[1..k -> {"1", ".", "x"}] : k \in 0..MaxAmountLen}

\* the accounts and the amount of the documented scenarios
Scenario1Account ==
  <<"1", "2", "3", "4", "5", "6", "-", "7", "8", "9", "0", "1", "2", "3", "4", "5", "6",
    "/", "0", "1", "0", "0">>
Scenario2Account ==
  <<"7", "8", "9", "0", "1", "2", "3", "4", "5", "6", "/", "0", "1", "0", "0">>
ScenarioAmount == <<"1", "5", "0", ".", "5", "0">>

FormValues(accounts, amounts) ==
  {[account |-> account, amount |-> amount, message |-> message] :
     account \in accounts, amount \in amounts, message \in MessageValues}

ValidateParams ==
  FormValues(RichAccounts, AmountValues)
    \cup FormValues(AccountValues, RichAmounts)
    \cup FormValues({Scenario1Account, Scenario2Account}, {ScenarioAmount})

InitValidate == \E params \in ValidateParams : InitWith(params)

NextValidate == \E g \in 1..gen : TimerFire(g)

SpecValidate == InitValidate /\ [][NextValidate]_vars

(***************************************************************************)
(* SpecError: the page is opened and left alone; its request completes     *)
(* with any response or failure, the error bodies having errors lists of   *)
(* up to MaxErrors elements and being read or failing to be read.          *)
(***************************************************************************)
NextError ==
  \/ \E g \in 1..gen : TimerFire(g)
  \/ \E g \in 1..gen : \E response \in Responses : HttpResponse(g, response)
  \/ \E g \in 1..gen : \E error \in Failures(Texts(MaxErrors)) : HttpError(g, error)
  \/ \E g \in 1..gen : TextRead(g)
  \/ \E g \in 1..gen : TextFail(g)

SpecError == Init /\ [][NextError]_vars

(***************************************************************************)
(* Properties of the pipeline, checked under Spec.                         *)
(***************************************************************************)
Terminal(result) == result.state \in {"success", "failed"}

\* C1 (latest-wins): a terminal result held by requestResult was made by the
\* call for the most recent FormState, and agrees with that FormState's
\* validation; an inner observable that was superseded before it delivered
\* its terminal result never delivers one, whenever its response arrives.
LatestWins ==
  /\ Terminal(requestResult) =>
       /\ requestResult.ref = gen
       /\ inners[gen].state = formState
       /\ inners[gen].terminal
       /\ (inners[gen].request = NoRequest) = (requestResult.errors.fields # NewErrors.fields)
  /\ \A g \in 1..gen :
       inners[g].supersededIn \in {"timer", "http", "text"} => ~inners[g].terminal

\* a superseded request's response has arrived and was dropped, and the
\* latest FormState's own result is on display
LatestWinsWitness ==
  /\ gen > 1
  /\ inners[1].supersededIn = "http"
  /\ inners[1].phase = "done"
  /\ Terminal(requestResult)
  /\ requestResult.ref = gen

\* C2 (debounce): a FormState superseded while its timer was still running
\* never has getQrCodeForState run for it, never has a request issued and
\* never delivers a terminal result.
Debounce ==
  \A g \in 1..gen :
    inners[g].supersededIn = "timer" =>
      /\ inners[g].phase = "timer"
      /\ inners[g].request = NoRequest
      /\ ~inners[g].terminal
      /\ requestResult.ref # g
      /\ previous.ref # g

\* the first FormState was superseded within its delay and the second one
\* has run to its terminal result
DebounceWitness ==
  /\ gen > 1
  /\ inners[1].supersededIn = "timer"
  /\ inners[gen].phase = "done"
  /\ Terminal(requestResult)

ResultShape(result) ==
  /\ result.state = "success" => result.blob # Null /\ result.errors.generic = Null
  /\ result.state = "failed" => result.blob = Null /\ result.errors.generic # Null
  /\ result.state = "loading" => result.blob = Null /\ result.errors.generic = Null
  /\ ~(result.blob # Null /\ result.errors.generic # Null)

\* C4: every result delivered is a success with a blob and no generic error,
\* a failure with a generic error and no blob, or loading with neither.
ResultInvariant ==
  /\ requestResult.state \in {"loading", "success", "failed"}
  /\ ResultShape(requestResult)
  /\ previous # NoResult =>
       previous.state \in {"loading", "success", "failed"} /\ ResultShape(previous)

\* a failure delivered by the map of a response that is not ok or has no body
ResultInvariantWitness ==
  /\ event = "response"
  /\ requestResult.state = "failed"
  /\ previous.state = "loading"

SameValue(a, b) == a.state = b.state /\ a.blob = b.blob /\ a.errors = b.errors

\* C5: no two results delivered one after the other are identical, neither
\* the same object nor equal in state, blob and errors.
NoConsecutiveDuplicates ==
  /\ previous.ref # requestResult.ref
  /\ ~SameValue(previous, requestResult)

\* two FormStates have each emitted loadingSingleton and it was delivered once
NoConsecutiveDuplicatesWitness ==
  /\ gen = 2
  /\ event = "emit"
  /\ requestResult = loadingSingleton
  /\ previous = NoResult

\* C6: a value change after which the trimmed values of the controls equal
\* the last FormState passed on changes nothing but the control: no new
\* FormState, no loading result, no new timer, nothing unsubscribed, no
\* request.
DeduplicatedChange ==
  [][(controls' # controls /\ \A f \in Field : trim(controls'[f]) = formState[f])
       => UNCHANGED pipeline]_vars

\* whitespace was put in front of the account while its request was in
\* flight, and the request is still subscribed
DeduplicatedChangeWitness ==
  /\ event = "same"
  /\ \E f \in Field : controls[f] # formState[f]
  /\ inners[gen].phase = "http"
  /\ inners[gen].subscribed

(***************************************************************************)
(* Properties of validation and of the request, checked under              *)
(* SpecValidate.  The patterns are stated here by position, independently  *)
(* of the matcher above.                                                   *)
(***************************************************************************)
AllDigits(s, from, to) == \A k \in from..to : s[k] \in Digits

\* s has, from position i on, a prefix of p digits and a dash (none when
\* p = 0), a number of n digits, a slash and a bank code of 4 digits
PatternAt(s, i, p, n) ==
  LET number == IF p = 0 THEN i ELSE i + p + 1
  IN /\ number + n + 4 <= Len(s)
     /\ p > 0 => AllDigits(s, i, i + p - 1) /\ s[i + p] = "-"
     /\ AllDigits(s, number, number + n - 1)
     /\ s[number + n] = "/"
     /\ AllDigits(s, number + n + 1, number + n + 4)

PatternLen(p, n) == (IF p = 0 THEN 0 ELSE p + 1) + n + 1 + 4

WellFormedAccount(s) ==
  \E p \in 0..6 : \E n \in 2..10 : Len(s) = PatternLen(p, n) /\ PatternAt(s, 1, p, n)

PatternsAt(s, i) == {pn \in (0..6) \X (2..10) : PatternAt(s, i, pn[1], pn[2])}

ContainsAccountPattern(s) == \E i \in 1..Len(s) : PatternsAt(s, i) # {}

ContainsDigit(s) == \E i \in 1..Len(s) : s[i] \in Digits

HasParam(request, key) == \E k \in 1..Len(request) : request[k][1] = key

ParamValue(request, key) == request[CHOOSE k \in 1..Len(request) : request[k][1] = key][2]

ParamKeys(request) == {request[k][1] : k \in 1..Len(request)}

\* C3: when the account or the amount of the FormState fails validation,
\* the call returns a failed result with blob null, delivered at once, and
\* no request is issued.
InvalidNeverRequested ==
  \A g \in 1..gen :
    LET state == inners[g].state
    IN (inners[g].phase # "timer"
          /\ ~(ContainsAccountPattern(state.account) /\ ContainsDigit(state.amount)))
       => /\ inners[g].phase = "done"
          /\ inners[g].request = NoRequest
          /\ requestResult.ref = g
          /\ requestResult.state = "failed"
          /\ requestResult.blob = Null

\* the account is valid and the amount is not: failed, and nothing requested
InvalidNeverRequestedWitness ==
  /\ event = "timer"
  /\ ContainsAccountPattern(formState.account)
  /\ ~ContainsDigit(formState.amount)
  /\ requestResult.state = "failed"
  /\ inners[gen].request = NoRequest

FirstPatternStart(s) ==
  CHOOSE i \in 1..Len(s) : PatternsAt(s, i) # {} /\ \A k \in 1..(i - 1) : PatternsAt(s, k) = {}

Scenario1Request ==
  << <<"accountPrefix", <<"1", "2", "3", "4", "5", "6">> >>,
     <<"accountNumber", <<"7", "8", "9", "0", "1", "2", "3", "4", "5", "6">> >>,
     <<"bankCode", <<"0", "1", "0", "0">> >>,
     <<"amount", <<"1", "5", "0", ".", "5", "0">> >>,
     <<"currency", <<"C", "Z", "K">> >> >>

\* C7: when both validations pass, the request carries accountNumber and
\* bankCode of the leftmost pattern in the account, the trimmed amount as it
\* is, currency CZK, the message and branding false, and accountPrefix
\* exactly when that pattern has a prefix; the documented scenarios give the
\* documented parameters.
RequestParameters ==
  \A g \in 1..gen :
    LET state == inners[g].state
        request == inners[g].request
    IN (inners[g].phase # "timer"
          /\ ContainsAccountPattern(state.account) /\ ContainsDigit(state.amount))
       => LET i == FirstPatternStart(state.account)
              pn == CHOOSE x \in PatternsAt(state.account, i) : TRUE
              p == pn[1]
              n == pn[2]
              number == IF p = 0 THEN i ELSE i + p + 1
          IN /\ inners[g].phase = "http"
             /\ ParamKeys(request) \ {"accountPrefix"} =
                  {"accountNumber", "bankCode", "amount", "currency", "message", "branding"}
             /\ Len(request) = Cardinality(ParamKeys(request))
             /\ ParamValue(request, "accountNumber")
                  = SubSeq(state.account, number, number + n - 1)
             /\ ParamValue(request, "bankCode")
                  = SubSeq(state.account, number + n + 1, number + n + 4)
             /\ ParamValue(request, "amount") = trim(controls.amount)
             /\ ParamValue(request, "currency") = <<"C", "Z", "K">>
             /\ ParamValue(request, "message") = state.message
             /\ ParamValue(request, "branding") = <<"false">>
             /\ HasParam(request, "accountPrefix") = (p > 0)
             /\ p > 0 => ParamValue(request, "accountPrefix") = SubSeq(state.account, i, i + p - 1)
             /\ (state.account = Scenario1Account /\ state.amount = ScenarioAmount)
                  => SubSeq(request, 1, 5) = Scenario1Request
             /\ (state.account = Scenario2Account /\ state.amount = ScenarioAmount)
                  => SubSeq(request, 1, 4) = Tail(Scenario1Request)

\* the request of scenario 1 has been issued
RequestParametersWitness ==
  /\ event = "timer"
  /\ formState.account = Scenario1Account
  /\ formState.amount = ScenarioAmount
  /\ HasParam(inners[gen].request, "accountPrefix")

\* C8: an account that is, as a whole, prefix-number/bankcode or
\* number/bankcode (prefix 1-6 digits, number 2-10 digits, bank code 4
\* digits) gets no account error; an account containing no such pattern gets
\* the account error and a generic error, and nothing is requested.
AccountValidation ==
  \A g \in 1..gen :
    LET account == inners[g].state.account
        errors == inners[g].errors
    IN inners[g].phase # "timer" =>
         /\ WellFormedAccount(account) => errors.fields.account = Null
         /\ ~ContainsAccountPattern(account) =>
              /\ errors.fields.account = AccountMessage
              /\ errors.generic # Null
              /\ requestResult.errors = errors
              /\ inners[g].request = NoRequest
              /\ inners[g].phase = "done"

\* an account with no prefix, of the shortest number, has passed
AccountValidationWitness ==
  /\ event = "timer"
  /\ WellFormedAccount(formState.account)
  /\ Len(formState.account) = PatternLen(0, 2)
  /\ inners[gen].errors.fields.account = Null
  /\ inners[gen].phase = "http"

\* C9: in a failed result of validation the account error is set exactly
\* when the account contains no pattern, the amount error exactly when the
\* amount contains no digit, the message error never, and the generic error
\* exactly when a field error is set.
FieldErrors ==
  \A g \in 1..gen :
    (inners[g].phase = "done" /\ inners[g].request = NoRequest /\ requestResult.ref = g) =>
      LET state == inners[g].state
          errors == requestResult.errors
      IN /\ requestResult.state = "failed"
         /\ (errors.fields.account # Null) = ~ContainsAccountPattern(state.account)
         /\ (errors.fields.amount # Null) = ~ContainsDigit(state.amount)
         /\ errors.fields.account \in {Null, AccountMessage}
         /\ errors.fields.amount \in {Null, AmountMessage}
         /\ errors.fields.message = Null
         /\ (errors.generic # Null)
              = (errors.fields.account # Null \/ errors.fields.amount # Null)

\* both validations have failed and both field errors are set
FieldErrorsWitness ==
  /\ event = "timer"
  /\ requestResult.state = "failed"
  /\ requestResult.errors.fields.account = AccountMessage
  /\ requestResult.errors.fields.amount = AmountMessage

(***************************************************************************)
(* Properties of the error mapping, checked under SpecError.               *)
(***************************************************************************)
\* a descriptor has a description when it is an object with a non-empty one
HasDescription(d) == d.isObject /\ d.hasDescription /\ d.description # <<>>

RECURSIVE GenericWith(_, _)
GenericWith(list, k) ==
  IF k = 0
    THEN GenericMessage
    ELSE GenericWith(list, k - 1)
           \o (IF HasDescription(list[k]) THEN <<" ">> \o list[k].description ELSE <<>>)

\* C10: when the call fails with an error response whose Blob body is JSON
\* with an errors list, the result delivered is failed, with blob null and
\* the generic message followed, in list order, by a space and the
\* description of each descriptor that has one.
ServerDescriptions ==
  \A g \in 1..gen :
    LET text == inners[g].text
    IN (inners[g].terminal /\ text.valid /\ text.isObject /\ text.hasErrors /\ text.isArray)
       => /\ requestResult.ref = g
          /\ requestResult.state = "failed"
          /\ requestResult.blob = Null
          /\ requestResult.errors.generic = GenericWith(text.errors, Len(text.errors))
          /\ requestResult.errors.fields = NewErrors.fields

\* an errors list of two different descriptions has been appended in order
ServerDescriptionsWitness ==
  /\ event = "text"
  /\ Len(inners[gen].text.errors) = 2
  /\ requestResult.errors.generic = GenericMessage \o <<" ", "I", "c", " ", "X">>

\* the text of an error body gives at least one description to append
UsableErrors(text) ==
  /\ text.valid /\ text.isObject /\ text.hasErrors /\ text.isArray
  /\ \E k \in 1..Len(text.errors) : HasDescription(text.errors[k])

\* C11: when the call fails (an error that is no HttpErrorResponse, an error
\* body that is no Blob, a body that is no JSON, JSON without an errors list
\* that gives a description), the result delivered is failed, with blob
\* null, exactly the generic message and no field error.
PlainFailure ==
  \A g \in 1..gen :
    (inners[g].terminal /\ inners[g].sent > 0 /\ inners[g].response = NoResponse
       /\ ~UsableErrors(inners[g].text))
    => /\ requestResult.ref = g
       /\ requestResult.state = "failed"
       /\ requestResult.blob = Null
       /\ requestResult.errors.generic = GenericMessage
       /\ \A f \in Field : requestResult.errors.fields[f] = Null

\* an error body whose errors is no array has been read and parsed
PlainFailureWitness ==
  /\ event = "text"
  /\ inners[gen].text.hasErrors
  /\ ~inners[gen].text.isArray
  /\ requestResult.errors.generic = GenericMessage

(***************************************************************************)
(* Properties of the stream's lifetime and of the displayed image, checked *)
(* under Spec.                                                             *)
(***************************************************************************)
\* C12: no failure is fatal: the stream is never closed by an error, and an
\* inner observable that was neither superseded nor cut off by destruction
\* and has run to its end has delivered its terminal result.
NoFailureIsFatal ==
  /\ ~errored
  /\ \A g \in 1..gen :
       (inners[g].phase = "done" /\ inners[g].supersededIn = "no" /\ ~destroyed)
         => inners[g].terminal

\* C13: when the subscriber replaces or clears imageUrl the object URL made
\* before is released: at most one object URL is unreleased, and none while
\* imageUrl is undefined.
HandleReleased ==
  /\ urlStore <= 1
  /\ imageUrl = Undefined => urlStore = 0

\* C14: imageUrl is defined exactly when requestResult is a success, and is
\* then the object URL of that result's blob; it is undefined while
\* requestResult is loading or failed.
ImageFollowsResult ==
  /\ (imageUrl # Undefined) = (requestResult.state = "success")
  /\ requestResult.state = "success" =>
       requestResult.blob \in Blobs /\ imageUrl = <<"blob:">> \o requestResult.blob
  /\ requestResult.state \in {"loading", "failed"} => imageUrl = Undefined

\* an image was on display and the next FormState's loading result cleared it
ImageFollowsResultWitness ==
  /\ event = "emit"
  /\ previous.state = "success"
  /\ requestResult = loadingSingleton
  /\ imageUrl = Undefined

\* C15: once the component is destroyed, requestResult and imageUrl never
\* change again, and the component stays destroyed.
Teardown ==
  [][destroyed =>
       /\ destroyed'
       /\ requestResult' = requestResult
       /\ imageUrl' = imageUrl
       /\ previous' = previous]_vars

\* the component was destroyed with a request in flight, whose response
\* came afterwards and changed nothing
TeardownWitness ==
  /\ destroyed
  /\ event = "discarded"
  /\ inners[gen].supersededIn = "no"
  /\ inners[gen].sent = 1
  /\ requestResult = loadingSingleton

\* C16: no FormState has more than one request issued for it, and while a
\* terminal result is on display no request is issued unless a new FormState
\* is passed on.
NoRetries ==
  [][/\ \A g \in 1..gen' : inners'[g].sent <= 1
     /\ (Terminal(requestResult) /\ gen' = gen) =>
          \A g \in 1..gen : inners'[g].sent = inners[g].sent]_vars

\* a request has failed, its failed result is on display, and a later value
\* change that left the FormState as it was has issued nothing
NoRetriesWitness ==
  /\ event = "same"
  /\ requestResult.state = "failed"
  /\ inners[gen].sent = 1
  /\ inners[gen].phase = "done"

\* C18: from the moment a FormState is passed on until its own terminal
\* result is delivered, requestResult is the loading result; a FormState
\* that fails validation is no exception, its failed result comes with the
\* expiry of the timer.
LoadingUntilTerminal ==
  /\ ~inners[gen].terminal => requestResult = loadingSingleton
  /\ inners[gen].terminal => requestResult.ref = gen
  /\ event = "emit" => requestResult = loadingSingleton /\ inners[gen].phase = "timer"

\* a terminal result was on display when a FormState with an invalid amount
\* was passed on: loading is displayed, the timer is running
LoadingUntilTerminalWitness ==
  /\ event = "emit"
  /\ Terminal(previous)
  /\ requestResult = loadingSingleton
  /\ ~ContainsDigit(formState.amount)
  /\ inners[gen].phase = "timer"

\* C19: when the component is not destroyed and the inner observable of the
\* last FormState has run to its end (timer expired, request completed or
\* failed, error body dealt with), requestResult is a terminal result of
\* that FormState.
SettledIsTerminal ==
  (~destroyed /\ inners[gen].phase = "done") =>
    Terminal(requestResult) /\ requestResult.ref = gen

InFlight == {g \in 1..gen : inners[g].phase = "http" /\ inners[g].subscribed}

\* C20: at most one request is in flight with a subscriber, and every inner
\* observable but the last is unsubscribed.
OneRequestInFlight ==
  /\ Cardinality(InFlight) <= 1
  /\ \A g \in 1..(gen - 1) : ~inners[g].subscribed

\* the first request was in flight when the second FormState came; it is
\* unsubscribed, and the second request is in flight
OneRequestInFlightWitness ==
  /\ gen = 2
  /\ inners[1].phase = "http"
  /\ inners[1].supersededIn = "http"
  /\ InFlight = {2}

(***************************************************************************)
(* The mapping of responses, checked under SpecError.                      *)
(***************************************************************************)
\* C17: a response that is ok and has a body gives a success whose blob is
\* that body, with no generic and no field error; a response that is not ok
\* or has no body gives a failure with blob null and the generic message.
ResponseMapping ==
  \A g \in 1..gen :
    LET response == inners[g].response
    IN response # NoResponse =>
         /\ requestResult.ref = g
         /\ (response.ok /\ response.body # Null) =>
              /\ requestResult.state = "success"
              /\ requestResult.blob = response.body
              /\ requestResult.errors = NewErrors
         /\ (~response.ok \/ response.body = Null) =>
              /\ requestResult.state = "failed"
              /\ requestResult.blob = Null
              /\ requestResult.errors.generic = GenericMessage

\* a response that has a body and is not ok has been mapped to a failure
ResponseMappingWitness ==
  /\ event = "response"
  /\ ~inners[gen].response.ok
  /\ inners[gen].response.body # Null
  /\ requestResult.state = "failed"
====
